---- MODULE Spec2Model ----
(***************************************************************************)
(* CosmicStack intake pipeline: the category matcher and its registry      *)
(* (app.py), the media branch, the structured branch (logic_structured.py  *)
(* and the stub in app.py) and the store endpoint.                         *)
(*                                                                         *)
(* Text is a sequence of one-character strings, so that lower(), split()   *)
(* and the substring test `in` are computed, not assumed.  A tag or a      *)
(* category name is the string Str(text).                                  *)
(***************************************************************************)
EXTENDS Integers, Sequences, FiniteSets, TLC

VARIABLES EXISTING_CATEGORIES, storage, last, threads

vars == <<EXISTING_CATEGORIES, storage, last, threads>>

(***************************************************************************)
(* Python str primitives                                                   *)
(***************************************************************************)
Letters ==
    {"a","b","c","d","e","f","g","h","i","j","k","l","m",
     "n","o","p","q","r","s","t","u","v","w","x","y","z"}

Digits == {"0","1","2","3","4","5","6","7","8","9"}

\* str.lower() on one character
UpperToLower ==
    ("A" :> "a") @@ ("B" :> "b") @@ ("C" :> "c") @@ ("D" :> "d") @@ ("E" :> "e") @@ ("F" :> "f") @@
    ("G" :> "g") @@ ("H" :> "h") @@ ("I" :> "i") @@ ("J" :> "j") @@ ("K" :> "k") @@ ("L" :> "l") @@
    ("M" :> "m") @@ ("N" :> "n") @@ ("O" :> "o") @@ ("P" :> "p") @@ ("Q" :> "q") @@ ("R" :> "r") @@
    ("S" :> "s") @@ ("T" :> "t") @@ ("U" :> "u") @@ ("V" :> "v") @@ ("W" :> "w") @@ ("X" :> "x") @@
    ("Y" :> "y") @@ ("Z" :> "z")

lower_char(c) == IF c \in DOMAIN UpperToLower THEN UpperToLower[c] ELSE c

\* str.lower()
lower(s) == [i \in DOMAIN s |-> lower_char(s[i])]

IsSpace(c) == c \in {" ", "\t", "\n"}

\* the string a text denotes
RECURSIVE StrFrom(_, _)
StrFrom(s, i) == IF i > Len(s) THEN "" ELSE s[i] \o StrFrom(s, i + 1)

Str(s) == StrFrom(s, 1)

\* sub in s  (substring test)
contains(sub, s) ==
    \E i \in 0..(Len(s) - Len(sub)) : SubSeq(s, i + 1, i + Len(sub)) = sub

\* s.endswith(suffix)
endswith(s, suffix) ==
    /\ Len(s) >= Len(suffix)
    /\ SubSeq(s, Len(s) - Len(suffix) + 1, Len(s)) = suffix

\* s.split(): the maximal runs of non-whitespace characters, in order
RECURSIVE split_from(_, _, _)
split_from(s, i, cur) ==
    IF i > Len(s)
    THEN IF cur = <<>> THEN <<>> ELSE <<cur>>
    ELSE IF IsSpace(s[i])
         THEN IF cur = <<>>
              THEN split_from(s, i + 1, <<>>)
              ELSE <<cur>> \o split_from(s, i + 1, <<>>)
         ELSE split_from(s, i + 1, Append(cur, s[i]))

split(s) == split_from(s, 1, <<>>)

\* s.rfind(sep) for a one-character sep, searching from position i down;
\* 0 when sep does not occur
RECURSIVE rfind(_, _, _)
rfind(s, sep, i) ==
    IF i = 0 THEN 0 ELSE IF s[i] = sep THEN i ELSE rfind(s, sep, i - 1)

\* s.split(sep)[-1]: what follows the last occurrence of the character sep
split_last(s, sep) == SubSeq(s, rfind(s, sep, Len(s)) + 1, Len(s))

\* s.rsplit(sep, 1)[0]: what precedes the last occurrence of sep
rsplit_first(s, sep) ==
    IF rfind(s, sep, Len(s)) = 0 THEN s
    ELSE SubSeq(s, 1, rfind(s, sep, Len(s)) - 1)

\* x in list
InList(x, list) == \E i \in DOMAIN list : list[i] = x

(***************************************************************************)
(* The category registry: a Python dict, kept as the sequence of its       *)
(* items in insertion order.                                               *)
(***************************************************************************)
SeedCategories ==
    << [name |-> "photos_of_people",      keywords |-> <<"face", "portrait", "selfie">>],
       [name |-> "documents",             keywords |-> <<"text", "invoice", "receipt">>],
       [name |-> "nature_and_landscapes", keywords |-> <<"green", "blue", "sky", "water">>] >>

HasCategory(reg, name) == \E i \in DOMAIN reg : reg[i].name = name

\* sum(1 for tag in tags if tag in keywords)
matches(tags, keywords) ==
    Cardinality({i \in DOMAIN tags : InList(tags[i], keywords)})

\* best_match with ">=" for ">": on a tie the later category wins
RECURSIVE best_match_last_wins(_, _, _, _, _)
best_match_last_wins(tags, reg, i, best_match_dir, max_matches) ==
    IF i > Len(reg)
    THEN [dir |-> best_match_dir, max |-> max_matches]
    ELSE LET m == matches(tags, reg[i].keywords)
         IN IF m >= max_matches
            THEN best_match_last_wins(tags, reg, i + 1, reg[i].name, m)
            ELSE best_match_last_wins(tags, reg, i + 1, best_match_dir, max_matches)

\* the loop of determine_directory from item i on, with the running best
RECURSIVE best_match(_, _, _, _, _)
best_match(tags, reg, i, best_match_dir, max_matches) ==
    IF i > Len(reg)
    THEN [dir |-> best_match_dir, max |-> max_matches]
    ELSE LET m == matches(tags, reg[i].keywords)
         IN IF m > max_matches
            THEN best_match(tags, reg, i + 1, reg[i].name, m)
            ELSE best_match(tags, reg, i + 1, best_match_dir, max_matches)

\* determine_directory registering the first tag even when a category matched
determine_directory_always_registers(tags, reg) ==
    LET b == best_match(tags, reg, 1, "unclassified", 0)
        new_dir_name == "new_category_" \o tags[1]
        grown == IF tags # <<>> /\ tags[1] # "file_error" /\ ~HasCategory(reg, new_dir_name)
                 THEN Append(reg, [name |-> new_dir_name, keywords |-> <<tags[1]>>])
                 ELSE reg
    IN IF b.max >= 1 THEN [dir |-> b.dir, registry |-> grown]
       ELSE IF tags # <<>> /\ tags[1] # "file_error"
            THEN [dir |-> new_dir_name, registry |-> grown]
            ELSE [dir |-> "unclassified", registry |-> reg]

\* determine_directory keeping every tag as keyword of the new category
determine_directory_all_keywords(tags, reg) ==
    LET b == best_match(tags, reg, 1, "unclassified", 0)
    IN IF b.max >= 1 THEN [dir |-> b.dir, registry |-> reg]
       ELSE IF tags # <<>> /\ tags[1] # "file_error"
            THEN LET new_dir_name == "new_category_" \o tags[1]
                 IN [dir |-> new_dir_name,
                     registry |-> IF ~HasCategory(reg, new_dir_name)
                                  THEN Append(reg, [name |-> new_dir_name,
                                                    keywords |-> tags])
                                  ELSE reg]
            ELSE [dir |-> "unclassified", registry |-> reg]

\* determine_directory looking for the sentinel at any position
determine_directory_sentinel_anywhere(tags, reg) ==
    LET b == best_match(tags, reg, 1, "unclassified", 0)
    IN IF b.max >= 1 THEN [dir |-> b.dir, registry |-> reg]
       ELSE IF tags # <<>> /\ ~InList("file_error", tags)
            THEN LET new_dir_name == "new_category_" \o tags[1]
                 IN [dir |-> new_dir_name,
                     registry |-> IF ~HasCategory(reg, new_dir_name)
                                  THEN Append(reg, [name |-> new_dir_name,
                                                    keywords |-> <<tags[1]>>])
                                  ELSE reg]
            ELSE [dir |-> "unclassified", registry |-> reg]

\* determine_directory without the sentinel test
determine_directory_no_sentinel(tags, reg) ==
    LET b == best_match(tags, reg, 1, "unclassified", 0)
    IN IF b.max >= 1 THEN [dir |-> b.dir, registry |-> reg]
       ELSE IF tags # <<>>
            THEN LET new_dir_name == "new_category_" \o tags[1]
                 IN [dir |-> new_dir_name,
                     registry |-> IF ~HasCategory(reg, new_dir_name)
                                  THEN Append(reg, [name |-> new_dir_name,
                                                    keywords |-> <<tags[1]>>])
                                  ELSE reg]
            ELSE [dir |-> "unclassified", registry |-> reg]

\* determine_directory storing a new category over the latest entry
determine_directory_replaces_last(tags, reg) ==
    LET b == best_match(tags, reg, 1, "unclassified", 0)
    IN IF b.max > 0 /\ b.max >= 1
       THEN [dir |-> b.dir, registry |-> reg]
       ELSE IF tags # <<>> /\ tags[1] # "file_error"
            THEN LET new_dir_name == "new_category_" \o tags[1]
                 IN [dir |-> new_dir_name,
                     registry |-> IF ~HasCategory(reg, new_dir_name)
                                  THEN [reg EXCEPT ![Len(reg)] =
                                           [name |-> new_dir_name, keywords |-> <<tags[1]>>]]
                                  ELSE reg]
            ELSE [dir |-> "unclassified", registry |-> reg]

\* determine_directory(tags) run on registry reg: the name returned and the
\* registry it leaves
determine_directory(tags, reg) ==
    LET b == best_match(tags, reg, 1, "unclassified", 0)
    IN IF b.max > 0 /\ b.max >= 1
       THEN [dir |-> b.dir, registry |-> reg]
       ELSE IF tags # <<>> /\ tags[1] # "file_error"
            THEN LET new_dir_name == "new_category_" \o tags[1]
                 IN [dir |-> new_dir_name,
                     registry |-> IF ~HasCategory(reg, new_dir_name)
                                  THEN Append(reg, [name |-> new_dir_name,
                                                    keywords |-> <<tags[1]>>])
                                  ELSE reg]
            ELSE [dir |-> "unclassified", registry |-> reg]

(***************************************************************************)
(* Text constants of the source                                            *)
(***************************************************************************)
t_storage    == <<"s","t","o","r","a","g","e">>
t_temp       == <<"t","e","m","p","_">>
t_gz         == <<".","g","z">>
t_relational == <<"r","e","l","a","t","i","o","n","a","l">>
t_document   == <<"d","o","c","u","m","e","n","t">>
t_ocr_marker == <<"o","c","r","_","s","c","a","n","_","r","e","q","u","e","s","t">>
t_decompressed == <<"d","e","c","o","m","p","r","e","s","s","e","d","_">>
t_ocr_suffix == <<"_","o","c","r",".","t","x","t">>
t_flexible   == <<"f","l","e","x","i","b","l","e">>

(***************************************************************************)
(* Storage: the files under the upload folder, each a path (directory,     *)
(* name) and the encoding of its bytes.  The base directory is "".         *)
(***************************************************************************)
File(dir, name, enc) == [dir |-> dir, name |-> name, enc |-> enc, content |-> <<>>]

\* writing a path replaces what was there
put(store, f) == {x \in store : ~(x.dir = f.dir /\ x.name = f.name)} \cup {f}

\* os.remove / the source side of os.rename
remove(store, dir, name) == {x \in store : ~(x.dir = dir /\ x.name = name)}

(***************************************************************************)
(* werkzeug.secure_filename: whitespace runs become "_", characters        *)
(* outside [A-Za-z0-9_.-] are dropped, leading and trailing "." and "_"    *)
(* are stripped.                                                           *)
(***************************************************************************)
RECURSIVE join(_, _)
join(parts, sep) ==
    IF parts = <<>> THEN <<>>
    ELSE IF Len(parts) = 1 THEN parts[1]
    ELSE parts[1] \o sep \o join(Tail(parts), sep)

FilenameChars == Letters \cup DOMAIN UpperToLower \cup Digits \cup {"_", ".", "-"}

FilenameChar(c) == c \in FilenameChars

RECURSIVE strip(_)
strip(s) ==
    IF s = <<>> THEN s
    ELSE IF s[1] \in {".", "_"} THEN strip(Tail(s))
    ELSE IF s[Len(s)] \in {".", "_"} THEN strip(SubSeq(s, 1, Len(s) - 1))
    ELSE s

secure_filename(filename) ==
    strip(SelectSeq(join(split(filename), <<"_">>), FilenameChar))

(***************************************************************************)
(* Tag extractor (app.py).  An upload's content is what Image.open makes   *)
(* of it: not an image (ok = FALSE), or a size and the three channel means *)
(* of the 50x50 copy.                                                      *)
(***************************************************************************)
ImageExtensions == {"jpg", "jpeg", "png", "webp"}

ColorThreshold == 180

RedGreenCeiling == 100

\* analyze_image_for_tags with "<=" for "<" in the red_heavy test
analyze_image_for_tags_ceiling_inclusive(filepath, img) ==
    LET ext == Str(lower(split_last(filepath, ".")))
    IN IF ext \notin ImageExtensions THEN <<"document", "text">>
       ELSE IF ~img.ok THEN <<"file_error", "unsupported">>
       ELSE (IF 10 * img.height > 12 * img.width THEN <<"portrait">>
             ELSE IF 10 * img.width > 12 * img.height THEN <<"landscape">>
             ELSE <<>>)
            \o (IF img.r > ColorThreshold /\ img.g <= RedGreenCeiling
                THEN <<"red_heavy">> ELSE <<>>)
            \o (IF img.g > ColorThreshold THEN <<"green">> ELSE <<>>)
            \o (IF img.b > ColorThreshold THEN <<"blue">> ELSE <<>>)

analyze_image_for_tags(filepath, img) ==
    LET ext == Str(lower(split_last(filepath, ".")))
    IN IF ext \notin ImageExtensions THEN <<"document", "text">>
       ELSE IF ~img.ok THEN <<"file_error", "unsupported">>
       ELSE (IF 10 * img.height > 12 * img.width THEN <<"portrait">>
             ELSE IF 10 * img.width > 12 * img.height THEN <<"landscape">>
             ELSE <<>>)
            \o (IF img.r > ColorThreshold /\ img.g < RedGreenCeiling
                THEN <<"red_heavy">> ELSE <<>>)
            \o (IF img.g > ColorThreshold THEN <<"green">> ELSE <<>>)
            \o (IF img.b > ColorThreshold THEN <<"blue">> ELSE <<>>)

\* tags.extend(metadata_comment.lower().split())
comment_tags(metadata_comment) ==
    LET toks == split(lower(metadata_comment))
    IN [i \in DOMAIN toks |-> Str(toks[i])]

(***************************************************************************)
(* What one run of a handler leaves to observe: the record it returns      *)
(* (status, kind of message, the keys of the returned dict, filename, ...) *)
(* and the locals the claims speak of.  Fields a run does not set keep the *)
(* values of NoOutcome.                                                     *)
(***************************************************************************)
NoSchema == <<>>

\* the payload and the comment a run was given
NoInput == [data |-> [t |-> "null", v |-> 0], comment |-> <<>>, file |-> <<>>,
            auto_compress |-> FALSE, query |-> <<>>, readable |-> TRUE,
            image |-> [ok |-> FALSE, width |-> 0, height |-> 0, r |-> 0, g |-> 0, b |-> 0]]

\* what is compared between a run and the same run with auto_compress negated
NoTwin == [status |-> "", filename |-> "", target_dir_name |-> "", registry |-> <<>>,
           storage_choice |-> "", generated_schema |-> NoSchema, compressed |-> FALSE,
           written |-> {}]

Summary(outcome, reg) ==
    [status |-> outcome.status, filename |-> outcome.filename,
     target_dir_name |-> outcome.target_dir_name, registry |-> reg,
     storage_choice |-> outcome.storage_choice,
     generated_schema |-> outcome.generated_schema,
     compressed |-> outcome.compressed, written |-> outcome.written]

NoOutcome ==
    [op |-> "none", status |-> "", kind |-> "", keys |-> {},
     filename |-> "", tags |-> <<>>, target_dir_name |-> "",
     auto_compress |-> FALSE, tag_failure |-> FALSE, compressed |-> FALSE,
     storage_choice |-> "", generated_schema |-> NoSchema,
     written |-> {}, before |-> <<>>, twin |-> NoTwin, input |-> NoInput,
     results |-> <<>>]

MediaKeys == {"status", "type", "filename", "classification_tags",
              "storage_location", "intelligence_action"}

ErrorKeys == {"status", "message"}

\* process_media_file compressing first and analysing the compressed file
process_media_file_compress_first(f, metadata_comment, auto_compress, io, reg, store) ==
    LET filename  == secure_filename(f.filename)
        temp_name == Str(t_temp \o filename)
        temp_path == t_storage \o <<"/">> \o t_temp \o filename
                     \o (IF auto_compress THEN t_gz ELSE <<>>)
        auto   == analyze_image_for_tags(temp_path, f.image)
        tags   == IF metadata_comment # <<>>
                  THEN auto \o comment_tags(metadata_comment) ELSE auto
        d      == determine_directory(tags, reg)
        run    == [NoOutcome EXCEPT !.op = "media", !.auto_compress = auto_compress,
                                    !.tags = tags, !.target_dir_name = d.dir,
                                    !.tag_failure = (auto = <<"file_error", "unsupported">>),
                                    !.status = "success", !.keys = MediaKeys]
        gzfile == File(d.dir, Str(filename \o t_gz), "gzip")
        moved  == File(d.dir, Str(filename), "raw")
    IN IF auto_compress
       THEN [outcome  |-> [run EXCEPT !.filename = Str(filename \o t_gz),
                                      !.compressed = TRUE, !.written = {gzfile}],
             registry |-> d.registry, storage |-> put(store, gzfile)]
       ELSE [outcome  |-> [run EXCEPT !.filename = Str(filename), !.written = {moved}],
             registry |-> d.registry, storage |-> put(store, moved)]

(***************************************************************************)
(* process_media_file (app.py).  io says which of the file operations of   *)
(* this run succeed: save (FileStorage.save), compress (the gzip copy) and *)
(* move (os.rename).  Returns the outcome, the registry and the storage.   *)
(***************************************************************************)
process_media_file(f, metadata_comment, auto_compress, io, reg, store) ==
    LET filename  == secure_filename(f.filename)
        temp_name == Str(t_temp \o filename)
        temp_path == t_storage \o <<"/">> \o t_temp \o filename
        base      == [NoOutcome EXCEPT !.op = "media", !.auto_compress = auto_compress]
    IN IF ~io.save
       THEN [outcome  |-> [base EXCEPT !.status = "error", !.kind = "save_failed",
                                       !.keys = ErrorKeys \cup {"error_details"}],
             registry |-> reg, storage |-> store]
       ELSE
       LET saved  == put(store, File("", temp_name, "raw"))
           auto   == analyze_image_for_tags(temp_path, f.image)
           tags   == IF metadata_comment # <<>>
                     THEN auto \o comment_tags(metadata_comment) ELSE auto
           d      == determine_directory(tags, reg)
           run    == [base EXCEPT !.tags = tags, !.target_dir_name = d.dir,
                                  !.tag_failure = (auto = <<"file_error", "unsupported">>)]
           gzfile == File(d.dir, Str(filename \o t_gz), "gzip")
           moved  == File(d.dir, Str(filename), "raw")
       IN IF auto_compress /\ io.compress
          THEN [outcome  |-> [run EXCEPT !.status = "success", !.keys = MediaKeys,
                                         !.filename = Str(filename \o t_gz),
                                         !.compressed = TRUE, !.written = {gzfile}],
                registry |-> d.registry,
                storage  |-> remove(put(saved, gzfile), "", temp_name)]
          ELSE IF io.move
          THEN [outcome  |-> [run EXCEPT !.status = "success", !.keys = MediaKeys,
                                         !.filename = Str(filename),
                                         !.kind = IF auto_compress THEN "compression_failed" ELSE "",
                                         !.written = {moved}],
                registry |-> d.registry,
                storage  |-> put(remove(saved, "", temp_name), moved)]
          ELSE IF auto_compress
          THEN \* os.rename raises inside the except clause: nothing catches it
               [outcome  |-> [run EXCEPT !.status = "raised", !.kind = "OSError"],
                registry |-> d.registry, storage |-> saved]
          ELSE [outcome  |-> [run EXCEPT !.status = "error", !.kind = "move_failed",
                                         !.keys = ErrorKeys \cup {"error_details"}],
                registry |-> d.registry,
                storage  |-> remove(saved, "", temp_name)]

(***************************************************************************)
(* JSON values as json.loads returns them: [t, v] with t the Python type   *)
(* ("dict", "list", "int", "float", "bool", "str", "null").  A dict's v is *)
(* the sequence of its items [k, v] in order, k a text; a list's v is the  *)
(* sequence of its elements; a str's v is a text.                          *)
(***************************************************************************)
JInt(n)    == [t |-> "int",   v |-> n]
JFloat(n)  == [t |-> "float", v |-> n]
JBool(b)   == [t |-> "bool",  v |-> b]
JStr(s)    == [t |-> "str",   v |-> s]
JNull      == [t |-> "null",  v |-> 0]
JList(es)  == [t |-> "list",  v |-> es]
JDict(kvs) == [t |-> "dict",  v |-> kvs]
Item(k, v) == [k |-> k, v |-> v]

\* isinstance(value, int): bool is a subclass of int
isinstance_int(value)   == value.t \in {"int", "bool"}
isinstance_float(value) == value.t = "float"
isinstance_bool(value)  == value.t = "bool"
isinstance_str(value)   == value.t = "str"

\* has_nested_complexity (logic_structured.py)
RECURSIVE has_nested_complexity(_)
has_nested_complexity(data) ==
    IF data.t = "dict"
    THEN \E i \in DOMAIN data.v : data.v[i].v.t \in {"dict", "list"}
    ELSE IF data.t = "list" /\ data.v # <<>>
    THEN IF data.v[1].t = "dict" THEN has_nested_complexity(data.v[1])
         ELSE data.v[1].t = "list"
    ELSE FALSE

DateTimeWords == { <<"d","a","t","e">>, <<"t","i","m","e">>,
                   <<"c","r","e","a","t","e","d","_","a","t">>,
                   <<"t","i","m","e","s","t","a","m","p">> }

\* the type guess for one field of the item
db_type(key, value) ==
    IF isinstance_int(value) THEN "INTEGER"
    ELSE IF isinstance_float(value) THEN "REAL"
    ELSE IF isinstance_bool(value) THEN "BOOLEAN"
    ELSE IF isinstance_str(value)
    THEN IF \E x \in DateTimeWords : contains(x, lower(key))
         THEN "TIMESTAMP" ELSE "VARCHAR(255)"
    ELSE "TEXT"

\* the digest of the serialized value (sha1 / hash of json.dumps): one name
\* per value
digest(data) == ToString(data)

\* generate_sql_schema_and_types (logic_structured.py): the exception it
\* raises ("" when none), the table name and the columns in item order
generate_sql_schema_and_types(data) ==
    IF data.t = "list" /\ data.v = <<>>
    THEN [raised |-> "IndexError", table |-> "", columns |-> <<>>]
    ELSE LET item == IF data.t = "list" THEN data.v[1] ELSE data
         IN IF item.t # "dict"
            THEN [raised |-> "AttributeError", table |-> "", columns |-> <<>>]
            ELSE [raised  |-> "",
                  table   |-> "analyzed_table_" \o digest(item),
                  columns |-> [i \in DOMAIN item.v |->
                                 [name |-> Str(item.v[i].k),
                                  type |-> db_type(item.v[i].k, item.v[i].v)]]]

\* storage_choice testing "document"/"flexible" before "relational"
storage_choice_document_first(data, metadata_comment) ==
    IF \/ contains(t_document, lower(metadata_comment))
       \/ contains(t_flexible, lower(metadata_comment))
    THEN "NoSQL (Forced by Comment)"
    ELSE IF contains(t_relational, lower(metadata_comment))
    THEN "SQL (Forced by Comment)"
    ELSE IF has_nested_complexity(data)
    THEN "NoSQL (Heuristic: Nested Complexity)"
    ELSE "SQL (Heuristic: Flat/Homogeneous)"

\* the decision logic of process_json_data (logic_structured.py)
storage_choice(data, metadata_comment) ==
    IF contains(t_relational, lower(metadata_comment))
    THEN "SQL (Forced by Comment)"
    ELSE IF \/ contains(t_document, lower(metadata_comment))
            \/ contains(t_flexible, lower(metadata_comment))
    THEN "NoSQL (Forced by Comment)"
    ELSE IF has_nested_complexity(data)
    THEN "NoSQL (Heuristic: Nested Complexity)"
    ELSE "SQL (Heuristic: Flat/Homogeneous)"

\* storage_choice.startswith("SQL")
is_sql(choice) ==
    choice \in {"SQL (Forced by Comment)", "SQL (Heuristic: Flat/Homogeneous)"}

StructuredKeys == {"status", "type", "storage_choice", "db_entity_name", "filename",
                   "storage_location", "generated_schema", "intelligence_action"}

NoSQLSchema == [raised |-> "", table |-> "", columns |-> <<>>]

\* process_json_data (logic_structured.py); io.write says whether the file
\* can be written, now is the minute stamp of the clock
logic_structured_process_json_data(data, metadata_comment, auto_compress, io, now, store) ==
    LET choice  == storage_choice(data, metadata_comment)
        entity  == "data_batch_" \o now \o "_" \o digest(data)
        schema  == IF is_sql(choice) THEN generate_sql_schema_and_types(data)
                   ELSE NoSQLSchema
        name    == IF auto_compress THEN entity \o ".json" \o ".gz" ELSE entity \o ".json"
        file    == File("Structured_JSON", name, IF auto_compress THEN "gzip" ELSE "text")
        base    == [NoOutcome EXCEPT !.op = "structured", !.auto_compress = auto_compress,
                                     !.storage_choice = choice]
    IN IF schema.raised # ""
       THEN [outcome |-> [base EXCEPT !.status = "raised", !.kind = schema.raised],
             storage |-> store]
       ELSE IF ~io.write
       THEN [outcome |-> [base EXCEPT !.status = "error", !.kind = "write_failed",
                                      !.keys = ErrorKeys,
                                      !.generated_schema = schema.columns],
             storage |-> store]
       ELSE [outcome |-> [base EXCEPT !.status = "success", !.keys = StructuredKeys,
                                      !.filename = name, !.compressed = auto_compress,
                                      !.generated_schema = schema.columns,
                                      !.target_dir_name = "Structured_JSON",
                                      !.written = {file}],
             storage |-> put(store, file)]

AppJsonKeys == {"status", "type", "filename", "storage_location", "intelligence_action"}

\* process_json_data (app.py), the one the store endpoint calls
app_process_json_data(data, metadata_comment, auto_compress, io, now, store) ==
    LET filename_base == "data_batch_" \o now \o "_" \o digest(data) \o ".json"
        name == IF auto_compress THEN filename_base \o ".gz" ELSE filename_base
        file == File("Structured_JSON", name, IF auto_compress THEN "gzip" ELSE "text")
        base == [NoOutcome EXCEPT !.op = "json", !.auto_compress = auto_compress]
    IN IF ~io.write
       THEN [outcome |-> [base EXCEPT !.status = "error", !.kind = "write_failed",
                                      !.keys = ErrorKeys],
             storage |-> store]
       ELSE [outcome |-> [base EXCEPT !.status = "success", !.keys = AppJsonKeys,
                                      !.filename = name, !.compressed = auto_compress,
                                      !.target_dir_name = "Structured_JSON",
                                      !.written = {file}],
             storage |-> put(store, file)]

(***************************************************************************)
(* process_ocr_scan (app.py).  ocr is what Tesseract does with the image:  *)
(* engine "missing", "failed", or "ok" with the extracted text.            *)
(***************************************************************************)
FinancialWords == { <<"i","n","v","o","i","c","e">>, <<"b","i","l","l">>, <<"r","e","c","e","i","p","t">> }

PiiWords == { <<"a","d","d","r","e","s","s">>, <<"p","h","o","n","e">>, <<"e","m","a","i","l">> }

CodeWords == { <<"c","l","a","s","s">>, <<"i","m","p","o","r","t">>, <<"d","e","f">>, <<"f","u","n","c","t","i","o","n">> }

ocr_tags(extracted_text) ==
    LET text_lower == lower(extracted_text)
    IN <<"ocr_document">>
       \o (IF \E k \in FinancialWords : contains(k, text_lower)
           THEN <<"financial_document">> ELSE <<>>)
       \o (IF \E k \in PiiWords : contains(k, text_lower)
           THEN <<"potential_pii">> ELSE <<>>)
       \o (IF \E k \in CodeWords : contains(k, text_lower)
           THEN <<"code_snippet">> ELSE <<>>)

OcrKeys == {"status", "type", "source_file", "generated_text_file",
            "extracted_text_summary", "classification_tags", "storage_location",
            "intelligence_action"}

process_ocr_scan(f, metadata_comment, io, ocr, reg, store) ==
    LET filename   == secure_filename(f.filename)
        temp_name  == Str(t_temp \o filename)
        base       == [NoOutcome EXCEPT !.op = "ocr"]
        is_compressed == endswith(lower(filename), t_gz)
        original_file_name_base == SubSeq(filename, 1, Len(filename) - 3)
        dec_name   == Str(t_decompressed \o original_file_name_base)
        error(kind, st) == [outcome |-> [base EXCEPT !.status = "error", !.kind = kind,
                                                     !.keys = ErrorKeys],
                            registry |-> reg, storage |-> st]
    IN IF ~io.save
       THEN \* f.save is outside every try block
            [outcome |-> [base EXCEPT !.status = "raised", !.kind = "OSError"],
             registry |-> reg, storage |-> store]
       ELSE
       LET saved == put(store, File("", temp_name, "raw"))
       IN IF is_compressed /\ ~io.decompress
          THEN error("decompression_failed", remove(remove(saved, "", temp_name), "", dec_name))
          ELSE
          LET opened  == IF is_compressed THEN put(saved, File("", dec_name, "raw")) ELSE saved
              cleaned == remove(remove(opened, "", temp_name), "", dec_name)
          IN IF ~f.image.ok THEN error("ocr_failed", cleaned)
             ELSE IF ocr.engine = "missing" THEN error("tesseract_not_found", cleaned)
             ELSE IF ocr.engine = "failed" THEN error("ocr_failed", cleaned)
             ELSE
             LET tags == ocr_tags(ocr.text)
                 text_base_name == IF is_compressed
                                   THEN rsplit_first(original_file_name_base, ".")
                                   ELSE rsplit_first(filename, ".")
                 text_filename  == Str(text_base_name \o t_ocr_suffix)
                 categorization_tags == tags \o <<"text", "document">>
                 d    == determine_directory(categorization_tags, reg)
                 file == [File(d.dir, text_filename, "text") EXCEPT !.content = ocr.text]
             IN IF ~io.write
                THEN [outcome |-> [base EXCEPT !.status = "error", !.kind = "ocr_failed",
                                               !.keys = ErrorKeys,
                                               !.tags = categorization_tags,
                                               !.target_dir_name = d.dir],
                      registry |-> d.registry, storage |-> cleaned]
                ELSE [outcome |-> [base EXCEPT !.status = "success", !.keys = OcrKeys,
                                               !.filename = text_filename,
                                               !.tags = categorization_tags,
                                               !.target_dir_name = d.dir,
                                               !.written = {file}],
                      registry |-> d.registry,
                      storage  |-> remove(remove(put(opened, file), "", temp_name), "", dec_name)]

(***************************************************************************)
(* store_data (app.py): the /api/store endpoint.  A request carries an     *)
(* optional file, an optional json_data field (given by what json.loads    *)
(* makes of it), the metadata comment and the auto_compress flag.          *)
(***************************************************************************)
\* store_data looking for the OCR marker in the comment as typed
store_data_marker_as_typed(req, io, ocr, now, reg, store) ==
    IF req.has_file /\ req.f.filename # <<>>
    THEN IF contains(t_ocr_marker, req.metadata_comment)
         THEN process_ocr_scan(req.f, req.metadata_comment, io, ocr, reg, store)
         ELSE process_media_file(req.f, req.metadata_comment, req.auto_compress,
                                 io, reg, store)
    ELSE IF req.has_json /\ ~req.json_blank
    THEN IF ~req.json_valid
         THEN [outcome  |-> [NoOutcome EXCEPT !.op = "json", !.status = "error",
                                              !.kind = "invalid_json", !.keys = ErrorKeys],
               registry |-> reg, storage |-> store]
         ELSE LET r == app_process_json_data(req.data, req.metadata_comment,
                                             req.auto_compress, io, now, store)
              IN [outcome |-> r.outcome, registry |-> reg, storage |-> r.storage]
    ELSE [outcome  |-> [NoOutcome EXCEPT !.op = "nothing", !.status = "error",
                                         !.kind = "no_input", !.keys = ErrorKeys],
          registry |-> reg, storage |-> store]

store_data(req, io, ocr, now, reg, store) ==
    IF req.has_file /\ req.f.filename # <<>>
    THEN IF contains(t_ocr_marker, lower(req.metadata_comment))
         THEN process_ocr_scan(req.f, req.metadata_comment, io, ocr, reg, store)
         ELSE process_media_file(req.f, req.metadata_comment, req.auto_compress,
                                 io, reg, store)
    ELSE IF req.has_json /\ ~req.json_blank
    THEN IF ~req.json_valid
         THEN [outcome  |-> [NoOutcome EXCEPT !.op = "json", !.status = "error",
                                              !.kind = "invalid_json", !.keys = ErrorKeys],
               registry |-> reg, storage |-> store]
         ELSE LET r == app_process_json_data(req.data, req.metadata_comment,
                                             req.auto_compress, io, now, store)
              IN [outcome |-> r.outcome, registry |-> reg, storage |-> r.storage]
    ELSE [outcome  |-> [NoOutcome EXCEPT !.op = "nothing", !.status = "error",
                                         !.kind = "no_input", !.keys = ErrorKeys],
          registry |-> reg, storage |-> store]

(***************************************************************************)
(* search_files (app.py): the /api/search endpoint.  os.listdir gives the  *)
(* names of the category directories and of their files as text.           *)
(***************************************************************************)
\* str.strip(): leading and trailing whitespace removed
RECURSIVE str_strip(_)
str_strip(s) ==
    IF s = <<>> THEN s
    ELSE IF IsSpace(s[1]) THEN str_strip(Tail(s))
    ELSE IF IsSpace(s[Len(s)]) THEN str_strip(SubSeq(s, 1, Len(s) - 1))
    ELSE s

\* the text of every directory and file name the service can have stored
ListedNames ==
    {<<"t","a","l","l",".","J","P","G">>,
     <<"t","a","l","l",".","J","P","G",".","g","z">>,
     <<"t","a","l","l","_","o","c","r",".","t","x","t">>,
     <<"m","y","_","s","c","a","n","_","o","c","r",".","t","x","t">>,
     <<"p","h","o","t","o","s","_","o","f","_","p","e","o","p","l","e">>,
     <<"d","o","c","u","m","e","n","t","s">>,
     <<"n","a","t","u","r","e","_","a","n","d","_","l","a","n","d","s","c","a","p","e","s">>,
     <<"u","n","c","l","a","s","s","i","f","i","e","d">>,
     <<"n","e","w","_","c","a","t","e","g","o","r","y","_","u","n","s","u","p","p","o","r","t","e","d">>}

listed(name) == CHOOSE x \in ListedNames : Str(x) = name

\* the search logic for one file; readable is whether the file's content
\* can be read
is_match(f, query, readable) ==
    \/ contains(query, lower(listed(f.name)))
    \/ contains(query, lower(listed(f.dir)))
    \/ /\ endswith(lower(listed(f.name)), t_ocr_suffix)
       /\ readable
       /\ contains(query, lower(f.content))

search_files(q, readable, store) ==
    LET query == str_strip(lower(q))
        listed_files == {f \in store : f.dir # ""}
    IN IF query = <<>>
       THEN [status |-> "ok", kind |-> "", results |-> <<>>]
       ELSE IF \E f \in listed_files : is_match(f, query, readable)
       THEN \* the first match reaches file_list.append: file_list is not
            \* defined, and the NameError is caught by the handler
            [status |-> "error", kind |-> "internal_error", results |-> <<>>]
       ELSE \* search_results is still empty when it is sorted and made unique
            [status |-> "ok", kind |-> "", results |-> <<>>]

(***************************************************************************)
(* Inputs                                                                  *)
(***************************************************************************)
MaxFiles == 1

MaxTags == 3

MaxElems == 2

NotAnImage == [ok |-> FALSE, width |-> 0, height |-> 0, r |-> 0, g |-> 0, b |-> 0]

Image(w, h, r, g, b) == [ok |-> TRUE, width |-> w, height |-> h, r |-> r, g |-> g, b |-> b]

img_tall_green  == Image(5, 7, 50, 200, 50)
img_square_dark == Image(5, 5, 50, 50, 50)

f_jpg == <<"t","a","l","l",".","J","P","G">>
f_gz  == <<"m","y"," ","s","c","a","n",".","p","n","g",".","g","z">>

Upload(filename, image) == [filename |-> filename, image |-> image]

Uploads ==
    {Upload(f_jpg, img_tall_green), Upload(f_jpg, img_square_dark),
     Upload(f_jpg, NotAnImage)}

OcrUploads == {Upload(f_jpg, img_square_dark), Upload(f_gz, img_square_dark)}

c_empty      == <<>>
c_portrait   == <<"P","o","r","t","r","a","i","t"," "," ","g","r","e","e","n">>
c_unsupp     == <<"u","n","s","u","p","p","o","r","t","e","d">>
c_widgets    == <<"w","i","d","g","e","t","s"," ","f","i","l","e","_","e","r","r","o","r">>
c_docstore   == <<"p","l","e","a","s","e"," ","u","s","e"," ","d","o","c","u","m","e","n","t"," ","s","t","o","r","e">>
c_relational == <<"R","e","l","a","t","i","o","n","a","l"," ","o","r"," ","f","l","e","x","i","b","l","e">>
c_ocr        == <<"s","k","y"," ","O","C","R","_","S","C","A","N","_","R","E","Q","U","E","S","T">>

MediaComments == {c_empty, c_portrait, c_unsupp}

OcrComments == {c_ocr}

c_flexible   == <<"F","l","e","x","i","b","l","e">>
c_RELATIONAL == <<"R","E","L","A","T","I","O","N","A","L">>

StructuredComments == {c_empty, c_docstore, c_relational, c_widgets,
                       c_flexible, c_RELATIONAL}

AllOk == [save |-> TRUE, compress |-> TRUE, move |-> TRUE, write |-> TRUE,
          decompress |-> TRUE]

\* the runs of the media branch: with and without compression, and each file
\* operation failing
MediaRuns ==
    {[auto_compress |-> c, io |-> AllOk] : c \in BOOLEAN}
    \cup {[auto_compress |-> FALSE, io |-> [AllOk EXCEPT !.save = FALSE]],
          [auto_compress |-> FALSE, io |-> [AllOk EXCEPT !.move = FALSE]],
          [auto_compress |-> TRUE,  io |-> [AllOk EXCEPT !.compress = FALSE]],
          [auto_compress |-> TRUE,  io |-> [AllOk EXCEPT !.compress = FALSE, !.move = FALSE]]}

WriteIO == {AllOk, [AllOk EXCEPT !.write = FALSE]}

NoOcr == [engine |-> "missing", text |-> <<>>]

OcrRead(text) == [engine |-> "ok", text |-> text]

\* the runs of the OCR branch: every engine outcome with the file
\* operations succeeding, and each file operation failing in turn
OcrRuns ==
    {[io |-> AllOk, ocr |-> o] :
        o \in {NoOcr, [engine |-> "failed", text |-> <<>>],
               OcrRead(<<"I","n","v","o","i","c","e"," ","N","o"," ","7","\n","i","m","p","o","r","t"," ","o","s">>)}}
    \cup {[io |-> i, ocr |-> OcrRead(<<"p","h","o","n","e">>)] :
            i \in {[AllOk EXCEPT !.save = FALSE], [AllOk EXCEPT !.decompress = FALSE],
                   [AllOk EXCEPT !.write = FALSE]}}

\* scans that succeed, with further extracted texts
OcrTextRuns ==
    OcrRuns \cup {[io |-> AllOk, ocr |-> OcrRead(<<"P","h","o","n","e">>)],
                  [io |-> AllOk, ocr |-> OcrRead(<<>>)]}

Timestamps == {"202611010000"}

\* JSON payloads: the scalars, the lists of at most MaxElems scalars, the
\* dicts over a few field names with scalar values, and nested ones
Scalars == {JInt(1), JFloat(15), JBool(TRUE), JStr(<<"a">>), JNull}

k_id      == <<"i","d">>
k_name    == <<"n","a","m","e">>
k_active  == <<"a","c","t","i","v","e">>
k_created == <<"C","r","e","a","t","e","d","_","A","t">>

ScalarLists ==
    {JList(es) : es \in UNION {[1..n -> Scalars] : n \in 0..MaxElems}}

FlatDicts ==
    {JDict(<<>>)}
    \cup {JDict(<<Item(k, v)>>) : k \in {k_active, k_created}, v \in Scalars}
    \cup {JDict(<<Item(k_id, v), Item(k_name, w)>>) : v \in Scalars, w \in Scalars}

p_batch  == JList(<<JDict(<<Item(k_id, JInt(1)), Item(k_name, JStr(<<"a">>))>>),
                    JDict(<<Item(k_id, JInt(2)), Item(k_name, JStr(<<"b">>))>>)>>)
p_nested == JDict(<<Item(<<"a">>, JInt(1)),
                    Item(<<"b">>, JList(<<JInt(1), JInt(2), JInt(3)>>))>>)
p_flat   == JDict(<<Item(<<"a">>, JInt(1)), Item(<<"b">>, JStr(<<"x">>))>>)

NestedPayloads ==
    {p_batch, p_nested, p_flat,
     JDict(<<Item(<<"a">>, JDict(<<>>))>>),
     JList(<<JList(<<>>)>>),
     JList(<<JList(<<JInt(1)>>), JInt(2)>>),
     JList(<<JInt(1), JList(<<JInt(2)>>)>>),
     JList(<<JInt(1), JDict(<<Item(<<"a">>, JList(<<>>))>>)>>),
     JList(<<JDict(<<Item(<<"a">>, JDict(<<Item(<<"b">>, JInt(1))>>))>>)>>),
     JList(<<JDict(<<Item(<<"a">>, JInt(1))>>), JDict(<<Item(<<"a">>, JList(<<>>))>>)>>)}

Payloads == Scalars \cup ScalarLists \cup FlatDicts \cup NestedPayloads

EndpointPayloads == {p_batch, JList(<<>>)}

NoFile == Upload(<<>>, NotAnImage)

FileRequests(uploads, comments, flags) ==
    [has_file : {TRUE}, f : uploads, has_json : {FALSE}, json_blank : {TRUE},
     json_valid : {FALSE}, data : {JNull}, metadata_comment : comments,
     auto_compress : flags]

JsonRequests ==
    [has_file : {FALSE}, f : {NoFile}, has_json : {TRUE}, json_blank : {FALSE},
     json_valid : {TRUE}, data : EndpointPayloads,
     metadata_comment : {c_empty}, auto_compress : BOOLEAN]
    \cup [has_file : {FALSE}, f : {NoFile}, has_json : {TRUE}, json_blank : {FALSE},
          json_valid : {FALSE}, data : {JNull},
          metadata_comment : {c_empty}, auto_compress : {FALSE}]

EmptyRequests ==
    [has_file : {FALSE}, f : {NoFile}, has_json : BOOLEAN, json_blank : {TRUE},
     json_valid : {FALSE}, data : {JNull},
     metadata_comment : {c_empty}, auto_compress : {FALSE}]

\* the request threads of the server, and the tags of their calls
MaxThreads == 2

Threads == 1..MaxThreads

ThreadTags == {<<"widgets", "file_error">>, <<"gadgets">>, <<"green", "portrait">>}

\* search queries: a file name, a category, a word of an extracted text,
\* a word that occurs nowhere, and blanks
Queries == {<<" "," ","T","A","L","L"," ">>, <<"d","o","c","u","m","e","n","t","s">>, <<"p","h","o","n","e">>, <<"z","e","b","r","a">>, <<" "," "," ">>}

\* channel means around the thresholds of the tag extractor, and image sizes
ChannelMeans == {0, 99, 100, 101, 180, 181, 255}

Sizes == {<<5, 5>>, <<5, 7>>}

TagUniverse == {"portrait", "green", "file_error", "unsupported"}

TagSeqs == UNION {[1..n -> TagUniverse] : n \in 0..MaxTags}

\* tags of the OCR path that can name a created category
RivalTags == {"ocr_document", "document"}

RivalTagSeqs == UNION {[1..n -> RivalTags] : n \in 1..MaxTags}

(***************************************************************************)
(* The state machine                                                       *)
(***************************************************************************)
\* a request thread that has not called determine_directory
Idle == [pc |-> "idle", tags |-> <<>>, i |-> 0, di_used |-> 0,
         best_match_dir |-> "", max_matches |-> 0, new_dir_name |-> "",
         result |-> ""]

Init ==
    /\ EXISTING_CATEGORIES = SeedCategories
    /\ storage = {}
    /\ last = NoOutcome
    /\ threads = [t \in Threads |-> Idle]

\* room for one more stored file
Room == Cardinality(storage) < MaxFiles

\* one request handled by store_data, to completion
Handle(req, io, ocr, now) ==
    LET r == store_data(req, io, ocr, now, EXISTING_CATEGORIES, storage)
        t == store_data([req EXCEPT !.auto_compress = ~req.auto_compress],
                        io, ocr, now, EXISTING_CATEGORIES, storage)
    IN /\ EXISTING_CATEGORIES' = r.registry
       /\ storage' = r.storage
       /\ UNCHANGED threads
       /\ last' = [r.outcome EXCEPT !.before = EXISTING_CATEGORIES,
                                    !.twin = Summary(t.outcome, t.registry),
                                    !.input = [NoInput EXCEPT
                                                  !.data = req.data,
                                                  !.file = req.f.filename,
                                                  !.image = req.f.image,
                                                  !.auto_compress = req.auto_compress,
                                                  !.comment = req.metadata_comment]]

StoreMedia ==
    /\ Room
    /\ \E run \in MediaRuns, now \in Timestamps :
          \E req \in FileRequests(Uploads, MediaComments, {run.auto_compress}) :
              Handle(req, run.io, NoOcr, now)

Scan(runs) ==
    /\ Room
    /\ \E req \in FileRequests(OcrUploads, OcrComments, {TRUE}), run \in runs,
          now \in Timestamps :
          Handle(req, run.io, run.ocr, now)

StoreOcr == Scan(OcrRuns)

StoreOcrAnyText == Scan(OcrTextRuns)

StoreJson ==
    /\ Room
    /\ \E req \in JsonRequests, io \in WriteIO, now \in Timestamps :
          Handle(req, io, NoOcr, now)

StoreNothing ==
    /\ Room
    /\ \E req \in EmptyRequests, now \in Timestamps :
          Handle(req, AllOk, NoOcr, now)

\* a direct call of logic_structured.process_json_data
StructuredCall(payloads, comments) ==
    \E data \in payloads, c \in comments, auto_compress \in BOOLEAN,
       io \in WriteIO, now \in Timestamps :
        LET r == logic_structured_process_json_data(data, c, auto_compress, io, now, storage)
            t == logic_structured_process_json_data(data, c, ~auto_compress, io, now, storage)
        IN /\ storage' = r.storage
           /\ last' = [r.outcome EXCEPT !.before = EXISTING_CATEGORIES,
                                        !.twin = Summary(t.outcome, EXISTING_CATEGORIES),
                                        !.input = [NoInput EXCEPT
                                                      !.data = data, !.comment = c,
                                                      !.auto_compress = auto_compress]]
           /\ UNCHANGED <<EXISTING_CATEGORIES, threads>>

StoreStructured == Room /\ StructuredCall(EndpointPayloads, {c_empty})

\* a direct call of determine_directory with one of the tag sequences
Categorize(tagseqs) ==
    \E tags \in tagseqs :
        LET d == determine_directory(tags, EXISTING_CATEGORIES)
        IN /\ EXISTING_CATEGORIES' = d.registry
           /\ last' = [NoOutcome EXCEPT !.op = "determine_directory", !.status = "returned",
                                        !.tags = tags, !.target_dir_name = d.dir,
                                        !.before = EXISTING_CATEGORIES]
           /\ UNCHANGED <<storage, threads>>

DirectCall == Categorize(TagSeqs)

\* a call of determine_directory by an earlier submission whose tags are
\* among those an OCR scan is categorized by
RivalCall == Categorize(RivalTagSeqs)

\* a direct call of analyze_image_for_tags on a readable image
AnalyzeCall ==
    \E size \in Sizes, r \in ChannelMeans, g \in ChannelMeans, b \in ChannelMeans :
        LET img == Image(size[1], size[2], r, g, b)
        IN /\ last' = [NoOutcome EXCEPT
                         !.op = "analyze_image_for_tags", !.status = "returned",
                         !.tags = analyze_image_for_tags(t_storage \o <<"/">> \o t_temp \o f_jpg, img),
                         !.input = [NoInput EXCEPT !.file = f_jpg, !.image = img]]
           /\ UNCHANGED <<EXISTING_CATEGORIES, storage, threads>>

\* one request to the search endpoint
Search ==
    \E q \in Queries, readable \in BOOLEAN :
        LET r == search_files(q, readable, storage)
        IN /\ last' = [NoOutcome EXCEPT
                         !.op = "search", !.status = r.status, !.kind = r.kind,
                         !.keys = IF r.status = "ok" THEN {"results"} ELSE {"error"},
                         !.results = r.results,
                         !.input = [NoInput EXCEPT !.query = q, !.readable = readable]]
           /\ UNCHANGED <<EXISTING_CATEGORIES, storage, threads>>

\* the first call of the structured branch in a fresh process
FirstStructuredCall == last = NoOutcome /\ StructuredCall(Payloads, StructuredComments)

(***************************************************************************)
(* determine_directory called by several request threads at once.  A       *)
(* thread can be pre-empted between any two of: fetching the next item of  *)
(* the iteration over EXISTING_CATEGORIES.items(), the membership test and *)
(* the insertion.  The dict iterator remembers the size of the dict when   *)
(* it was made and raises RuntimeError when asked for an item after the    *)
(* size has changed.                                                       *)
(***************************************************************************)
Step(t, new) ==
    /\ threads' = [threads EXCEPT ![t] = new]
    /\ UNCHANGED <<storage, last>>

\* the call, up to the creation of the iterator
Enter(t) ==
    /\ threads[t].pc = "idle"
    /\ \E tags \in ThreadTags :
          Step(t, [Idle EXCEPT !.pc = "iterate", !.tags = tags,
                               !.di_used = Len(EXISTING_CATEGORIES)])
    /\ UNCHANGED EXISTING_CATEGORIES

\* one turn of the for loop: the next item and the loop body, or the end
Iterate(t) ==
    LET c == threads[t]
    IN /\ c.pc = "iterate"
       /\ UNCHANGED EXISTING_CATEGORIES
       /\ IF c.di_used # Len(EXISTING_CATEGORIES)
          THEN Step(t, [c EXCEPT !.pc = "raised", !.result = "RuntimeError"])
          ELSE IF c.i < Len(EXISTING_CATEGORIES)
          THEN LET m == matches(c.tags, EXISTING_CATEGORIES[c.i + 1].keywords)
               IN IF m > c.max_matches
                  THEN Step(t, [c EXCEPT !.i = c.i + 1, !.max_matches = m,
                                         !.best_match_dir = EXISTING_CATEGORIES[c.i + 1].name])
                  ELSE Step(t, [c EXCEPT !.i = c.i + 1])
          ELSE IF c.max_matches > 0 /\ c.max_matches >= 1
          THEN Step(t, [c EXCEPT !.pc = "returned", !.result = c.best_match_dir])
          ELSE IF c.tags # <<>> /\ c.tags[1] # "file_error"
          THEN Step(t, [c EXCEPT !.pc = "test",
                                 !.new_dir_name = "new_category_" \o c.tags[1]])
          ELSE Step(t, [c EXCEPT !.pc = "returned", !.result = "unclassified"])

\* new_dir_name not in EXISTING_CATEGORIES
Test(t) ==
    LET c == threads[t]
    IN /\ c.pc = "test"
       /\ UNCHANGED EXISTING_CATEGORIES
       /\ IF ~HasCategory(EXISTING_CATEGORIES, c.new_dir_name)
          THEN Step(t, [c EXCEPT !.pc = "insert"])
          ELSE Step(t, [c EXCEPT !.pc = "returned", !.result = c.new_dir_name])

\* EXISTING_CATEGORIES[new_dir_name] = [tags[0]]: a new key is added at
\* the end, an existing key keeps its place and gets the value
Insert(t) ==
    LET c == threads[t]
        entry == [name |-> c.new_dir_name, keywords |-> <<c.tags[1]>>]
    IN /\ c.pc = "insert"
       /\ EXISTING_CATEGORIES' =
             IF HasCategory(EXISTING_CATEGORIES, c.new_dir_name)
             THEN [i \in DOMAIN EXISTING_CATEGORIES |->
                      IF EXISTING_CATEGORIES[i].name = c.new_dir_name
                      THEN entry ELSE EXISTING_CATEGORIES[i]]
             ELSE Append(EXISTING_CATEGORIES, entry)
       /\ Step(t, [c EXCEPT !.pc = "returned", !.result = c.new_dir_name])

NextThreads == \E t \in Threads : Enter(t) \/ Iterate(t) \/ Test(t) \/ Insert(t)

Next == StoreMedia \/ StoreOcr \/ StoreJson \/ StoreNothing \/ StoreStructured

\* the service: requests to the store endpoint and calls of the structured branch
Spec == Init /\ [][Next]_vars

\* the category matcher called on any tag sequence
SpecMatcher == Init /\ [][DirectCall]_vars

\* the structured branch applied to any payload
SpecStructured == Init /\ [][FirstStructuredCall]_vars

\* OCR scans after submissions whose tags are those of the OCR path
SpecOcr == Init /\ [][RivalCall \/ StoreOcrAnyText]_vars

\* uploads and searches
SpecSearch == Init /\ [][StoreMedia \/ StoreOcrAnyText \/ Search]_vars

\* the tag extractor called on any image
SpecExtractor == Init /\ [][AnalyzeCall]_vars

\* request threads inside determine_directory, interleaved step by step
SpecThreads == Init /\ [][NextThreads]_vars

(***************************************************************************)
(* Properties of the category matcher                                      *)
(***************************************************************************)
\* some tag is a keyword of some category of reg
Matched(tags, reg) == \E i \in DOMAIN reg : matches(tags, reg[i].keywords) >= 1

\* name is the category of reg with the highest count, the earliest such
IsFirstBest(name, tags, reg) ==
    \E i \in DOMAIN reg :
        /\ reg[i].name = name
        /\ \A j \in DOMAIN reg :
              matches(tags, reg[j].keywords) <= matches(tags, reg[i].keywords)
        /\ \A j \in 1..(i - 1) :
              matches(tags, reg[j].keywords) < matches(tags, reg[i].keywords)

DirectlyCalled == last.op = "determine_directory"

\* C1: when some tag matches, determine_directory returns the category with
\* the highest count of matching tags, and among those with that count the
\* one inserted into the registry first.
C1_HighestCountEarliestWins ==
    (DirectlyCalled /\ Matched(last.tags, last.before))
        => IsFirstBest(last.target_dir_name, last.tags, last.before)

\* the tie of the example: [portrait, green] on the seeded registry
C1_Witness ==
    /\ DirectlyCalled
    /\ last.tags = <<"portrait", "green">>
    /\ last.before = SeedCategories
    /\ last.target_dir_name = "photos_of_people"

UniqueNames(reg) == \A i, j \in DOMAIN reg : reg[i].name = reg[j].name => i = j

\* C2: a call whose tags match an existing category leaves the registry as
\* it was (names, keyword lists, size), and no name occurs twice.
C2_MatchLeavesRegistry ==
    /\ UniqueNames(EXISTING_CATEGORIES)
    /\ (DirectlyCalled /\ Matched(last.tags, last.before))
          => EXISTING_CATEGORIES = last.before

\* the tag of a category created earlier is classified again
C2_Witness ==
    /\ DirectlyCalled
    /\ Matched(last.tags, last.before)
    /\ last.target_dir_name = "new_category_unsupported"
    /\ Len(last.before) = Len(SeedCategories) + 1
    /\ EXISTING_CATEGORIES = last.before

NoMatchNewCategory ==
    /\ DirectlyCalled
    /\ ~Matched(last.tags, last.before)
    /\ last.tags # <<>>
    /\ last.tags[1] # "file_error"

\* C3: with no match, a non-empty sequence and a first tag t other than
\* "file_error", the call returns "new_category_" + t and the registry gains
\* exactly the entry of that name with keywords [t]; when the name is already
\* there the registry is unchanged.
C3_NewCategoryFromFirstTag ==
    NoMatchNewCategory =>
        /\ last.target_dir_name = "new_category_" \o last.tags[1]
        /\ EXISTING_CATEGORIES =
              IF HasCategory(last.before, last.target_dir_name)
              THEN last.before
              ELSE Append(last.before, [name |-> last.target_dir_name,
                                        keywords |-> <<last.tags[1]>>])

C3_Witness ==
    /\ NoMatchNewCategory
    /\ Len(last.tags) > 1
    /\ last.target_dir_name = "new_category_unsupported"
    /\ Len(EXISTING_CATEGORIES) = Len(last.before) + 1

\* C4: with no match, an empty sequence or a first tag "file_error" gives
\* "unclassified" and no insertion; "file_error" at a later position does not
\* short-circuit: the category named from the first tag is returned and is
\* in the registry.
C4_SentinelOnlyFirst ==
    (DirectlyCalled /\ ~Matched(last.tags, last.before)) =>
        IF last.tags = <<>> \/ last.tags[1] = "file_error"
        THEN /\ last.target_dir_name = "unclassified"
             /\ EXISTING_CATEGORIES = last.before
        ELSE /\ last.target_dir_name = "new_category_" \o last.tags[1]
             /\ HasCategory(EXISTING_CATEGORIES, last.target_dir_name)

C4_Witness ==
    /\ DirectlyCalled
    /\ last.tags = <<"unsupported", "file_error">>
    /\ last.before = SeedCategories
    /\ last.target_dir_name = "new_category_unsupported"
    /\ HasCategory(EXISTING_CATEGORIES, "new_category_unsupported")

(***************************************************************************)
(* Properties of the media branch                                          *)
(***************************************************************************)
MediaTagFailure == last.op = "media" /\ last.tag_failure

\* C5 as stated: whenever tag extraction fails in the media branch, the
\* category resolves to "unclassified", whatever the comment and the
\* registry.
C5_FailureAlwaysUnclassified ==
    MediaTagFailure => last.target_dir_name = "unclassified"

\* C5 amended: after a failed tag extraction the run goes on to
\* categorization with the sentinel tags followed by the comment's tokens,
\* never inserts a category, and resolves to "unclassified" exactly when none
\* of these tags matches a keyword of a registered category; otherwise to the
\* best-matching category.  Only a failing file operation ends the run
\* without success.
C5_FailureUnclassifiedUnlessMatched ==
    MediaTagFailure =>
        /\ SubSeq(last.tags, 1, 2) = <<"file_error", "unsupported">>
        /\ EXISTING_CATEGORIES = last.before
        /\ IF Matched(last.tags, last.before)
           THEN IsFirstBest(last.target_dir_name, last.tags, last.before)
           ELSE last.target_dir_name = "unclassified"
        /\ last.status # "success" => last.kind \in {"move_failed", "OSError"}

\* an unreadable image, no comment, after new_category_unsupported was made
C5_Witness ==
    /\ MediaTagFailure
    /\ last.tags = <<"file_error", "unsupported">>
    /\ last.status = "success"
    /\ last.target_dir_name = "new_category_unsupported"

(***************************************************************************)
(* Properties of the structured branch                                     *)
(***************************************************************************)
StructuredRun == last.op = "structured"

\* the comments of StructuredComments that contain "relational", and those
\* that contain "document" or "flexible", in any case
SaysRelational == {c_relational, c_RELATIONAL}

SaysDocumentOrFlexible == {c_docstore, c_relational, c_flexible}

NestedDict(d) ==
    d.t = "dict" /\ \E i \in DOMAIN d.v : d.v[i].v.t \in {"dict", "list"}

\* nested: a mapping with a mapping or list value, or a list whose first
\* element is a list or a nested mapping
Nested(data) ==
    \/ NestedDict(data)
    \/ /\ data.t = "list"
       /\ data.v # <<>>
       /\ (data.v[1].t = "list" \/ NestedDict(data.v[1]))

FirstApplicableRule(data, comment) ==
    IF comment \in SaysRelational THEN "SQL (Forced by Comment)"
    ELSE IF comment \in SaysDocumentOrFlexible THEN "NoSQL (Forced by Comment)"
    ELSE IF Nested(data) THEN "NoSQL (Heuristic: Nested Complexity)"
    ELSE "SQL (Heuristic: Flat/Homogeneous)"

\* C6: the storage shape is the outcome of the first applicable rule:
\* "relational" in the comment, then "document"/"flexible" in the comment,
\* then a nested payload, else relational by heuristic.
C6_ShapeByFirstApplicableRule ==
    StructuredRun =>
        last.storage_choice = FirstApplicableRule(last.input.data, last.input.comment)

\* "Relational or flexible" on a nested payload is forced relational
C6_Witness ==
    /\ StructuredRun
    /\ last.input.comment = c_relational
    /\ last.input.data = p_nested
    /\ last.status = "success"
    /\ last.storage_choice = "SQL (Forced by Comment)"

\* the item the schema is synthesized from
Representative(data) == IF data.t = "list" THEN data.v[1] ELSE data

Synthesized ==
    /\ StructuredRun
    /\ is_sql(last.storage_choice)
    /\ last.status # "raised"

\* C7: every boolean-valued field of the representative item gets the
\* boolean type, never the integer type.
C7_BooleanFieldIsBoolean ==
    Synthesized =>
        \A i \in DOMAIN last.generated_schema :
            Representative(last.input.data).v[i].v.t = "bool"
                => last.generated_schema[i].type = "BOOLEAN"

\* C8: for every valid JSON payload and every comment the structured branch
\* returns a decision record; it never raises.
C8_StructuredNeverRaises == StructuredRun => last.status # "raised"

(***************************************************************************)
(* Properties of the store endpoint                                        *)
(***************************************************************************)
EndpointJsonStored == last.op = "json" /\ last.status = "success"

BatchSchema == <<[name |-> "id", type |-> "INTEGER"],
                 [name |-> "name", type |-> "VARCHAR(255)"]>>

\* C9: a structured submission accepted by the store endpoint is
\* shape-classified before it is placed and schema-synthesized when
\* relational; the flat batch with no comment and no compression reports
\* relational, id integer and name variable-length text, and a .json name.
C9_EndpointClassifiesStructured ==
    EndpointJsonStored =>
        /\ "storage_choice" \in last.keys
        /\ is_sql(last.storage_choice) => "generated_schema" \in last.keys
        /\ (last.input.data = p_batch /\ last.input.comment = <<>> /\ ~last.auto_compress)
              => /\ last.storage_choice = "SQL (Heuristic: Flat/Homogeneous)"
                 /\ last.generated_schema = BatchSchema
                 /\ ~last.compressed
                 /\ \E now \in Timestamps :
                       last.filename = "data_batch_" \o now \o "_" \o digest(p_batch) \o ".json"

(***************************************************************************)
(* Compression                                                             *)
(***************************************************************************)
Compressible == last.op \in {"media", "structured", "json"}

\* the files of a plain run, compressed and renamed with the suffix
Gzipped(files) == {File(f.dir, f.name \o ".gz", "gzip") : f \in files}

\* C10: a run and the same run with the compression flag negated, from the
\* same registry and storage, decide the same category, the same storage
\* shape and schema and leave the same registry; when one of them compresses
\* and both succeed, its filename is the other's with ".gz" appended and the
\* file it places is the other's, compressed, under that name.
C10_CompressionKeepsDecision ==
    Compressible =>
        /\ last.twin.target_dir_name = last.target_dir_name
        /\ last.twin.registry = EXISTING_CATEGORIES
        /\ last.twin.storage_choice = last.storage_choice
        /\ last.twin.generated_schema = last.generated_schema
        /\ (last.status = "success" /\ last.twin.status = "success") =>
              /\ last.compressed =>
                    /\ last.filename = last.twin.filename \o ".gz"
                    /\ last.written = Gzipped(last.twin.written)
              /\ last.twin.compressed =>
                    /\ last.twin.filename = last.filename \o ".gz"
                    /\ last.twin.written = Gzipped(last.written)
              /\ ~last.compressed /\ ~last.twin.compressed =>
                    /\ last.filename = last.twin.filename
                    /\ last.written = last.twin.written

\* a compressed media upload that created a category
C10_Witness ==
    /\ last.op = "media"
    /\ last.compressed
    /\ last.status = "success"
    /\ last.twin.status = "success"
    /\ Len(EXISTING_CATEGORIES) = Len(last.before) + 1

(***************************************************************************)
(* The OCR path                                                            *)
(***************************************************************************)
\* the comments of the model that contain the OCR marker in some case
SaysOcr == {c_ocr}

\* the text artifact's name for each upload of the model: the base filename
\* (sanitized, without ".gz" and without extension) and the suffix
OcrTextName(file) ==
    IF file = f_jpg THEN "tall_ocr.txt"
    ELSE IF file = f_gz THEN "my_scan_ocr.txt"
    ELSE ""

OcrDerivedTags ==
    {<<"ocr_document">> \o t : t \in
        {<<>>, <<"potential_pii">>, <<"financial_document", "code_snippet">>}}


\* C11: a file upload whose comment contains the OCR marker, in any case,
\* runs the OCR path and not the media branch; when it succeeds, the only
\* change to the category directories is the text artifact
\* <base filename>_ocr.txt, no temporary file is added, and the artifact is in
\* the category determine_directory gives for the OCR-derived tags followed
\* by [text, document], and the compression flag makes no difference.
C11_OcrPathOnlyTextArtifact ==
    [][ (last'.input.file # <<>> /\ last'.input.comment \in SaysOcr) =>
          /\ last'.op = "ocr"
          /\ last'.status = "success" =>
               \E artifact \in last'.written :
                  /\ last'.written = {artifact}
                  /\ artifact.dir = last'.target_dir_name
                  /\ artifact.name = OcrTextName(last'.input.file)
                  /\ artifact.enc = "text"
                  /\ {x \in storage' : x.dir # ""} =
                        {x \in storage : x.dir # "" /\ ~(x.dir = artifact.dir /\ x.name = artifact.name)}
                            \cup {artifact}
                  /\ {x \in storage' : x.dir = ""} \subseteq storage
                  /\ SubSeq(last'.tags, 1, Len(last'.tags) - 2) \in OcrDerivedTags
                  /\ SubSeq(last'.tags, Len(last'.tags) - 1, Len(last'.tags)) = <<"text", "document">>
                  /\ IsFirstBest(last'.target_dir_name, last'.tags, last'.before)
                  /\ ~last'.compressed
                  /\ last'.twin.status = "success"
                  /\ last'.twin.written = last'.written
                  /\ last'.twin.registry = EXISTING_CATEGORIES'
      ]_vars

\* a compressed scan with compression requested, read successfully
C11_Witness ==
    /\ last.op = "ocr"
    /\ last.status = "success"
    /\ last.input.auto_compress
    /\ last.input.file = f_gz
    /\ last.input.comment = c_ocr
    /\ last.filename = "my_scan_ocr.txt"
    /\ storage = last.written

(***************************************************************************)
(* Concurrent calls of determine_directory                                 *)
(***************************************************************************)
Finished(t) == threads[t].pc \in {"returned", "raised"}

Novel(tags) == tags # <<>> /\ ~Matched(tags, SeedCategories) /\ tags[1] # "file_error"

Entries(name) == {i \in DOMAIN EXISTING_CATEGORIES : EXISTING_CATEGORIES[i].name = name}

\* exactly one category for the first tag, and the built-in entries intact
OneNewCategory(tags) ==
    /\ SubSeq(EXISTING_CATEGORIES, 1, Len(SeedCategories)) = SeedCategories
    /\ Cardinality(Entries("new_category_" \o tags[1])) = 1
    /\ \A i \in Entries("new_category_" \o tags[1]) :
          EXISTING_CATEGORIES[i].keywords = <<tags[1]>>

\* the half of C12 about the registry: calls with a novel tag sequence, once
\* finished, leave exactly one new category for its first tag
NoDoubleInsertion ==
    \A t \in Threads :
        (threads[t].pc = "returned" /\ Novel(threads[t].tags))
            => OneNewCategory(threads[t].tags)

\* C12: two calls with the identical novel tag sequence, interleaved in any
\* way, both return, return the same category name, and leave exactly one
\* new category for that tag with the built-in entries intact.
C12_ConcurrentCallsAgree ==
    \A t, u \in Threads :
        (/\ t # u
         /\ Finished(t) /\ Finished(u)
         /\ threads[t].tags = threads[u].tags
         /\ Novel(threads[t].tags))
        => /\ threads[t].pc = "returned"
           /\ threads[u].pc = "returned"
           /\ threads[t].result = threads[u].result
           /\ OneNewCategory(threads[t].tags)

(***************************************************************************)
(* The registry over a run of the service                                  *)
(***************************************************************************)
Keywords(entry) == {entry.keywords[k] : k \in DOMAIN entry.keywords}

WellFormedRegistry ==
    /\ UniqueNames(EXISTING_CATEGORIES)
    /\ \A i \in DOMAIN SeedCategories :
          \E j \in DOMAIN EXISTING_CATEGORIES :
              /\ EXISTING_CATEGORIES[j].name = SeedCategories[i].name
              /\ EXISTING_CATEGORIES[j].keywords # <<>>

RegistryGrows ==
    \A i \in DOMAIN EXISTING_CATEGORIES :
        \E j \in DOMAIN EXISTING_CATEGORIES' :
            /\ EXISTING_CATEGORIES'[j].name = EXISTING_CATEGORIES[i].name
            /\ Keywords(EXISTING_CATEGORIES[i]) \subseteq Keywords(EXISTING_CATEGORIES'[j])

\* C13: over any sequence of submissions the registry only grows: names are
\* unique, every submission keeps every category with all of its keywords,
\* and the three built-in categories keep a non-empty keyword list.
C13_RegistryOnlyGrows == [](WellFormedRegistry) /\ [][RegistryGrows]_vars

\* a successful submission handled after a category had been created
C13_Witness ==
    /\ Len(EXISTING_CATEGORIES) > Len(SeedCategories)
    /\ last.before = EXISTING_CATEGORIES
    /\ last.op \in {"media", "ocr"}
    /\ last.status = "success"

(***************************************************************************)
(* The colour tags of the tag extractor                                    *)
(***************************************************************************)
Analyzed == last.op = "analyze_image_for_tags"

Emitted(tag) == InList(tag, last.tags)

\* C14 as stated: each colour tag depends on its own channel only, each
\* against 180.
C14_ColourChecksIndependent ==
    Analyzed =>
        /\ Emitted("red_heavy") <=> last.input.image.r > 180
        /\ Emitted("green") <=> last.input.image.g > 180
        /\ Emitted("blue") <=> last.input.image.b > 180

\* C14 amended: "green" and "blue" each depend on their own channel mean
\* exceeding 180; "red_heavy" is emitted iff the red mean exceeds 180 and the
\* green mean is below 100, so "red_heavy" and "green" never occur together.
C14_RedHeavyNeedsLowGreen ==
    Analyzed =>
        /\ Emitted("red_heavy") <=>
              (last.input.image.r > 180 /\ last.input.image.g < 100)
        /\ Emitted("green") <=> last.input.image.g > 180
        /\ Emitted("blue") <=> last.input.image.b > 180
        /\ ~(Emitted("red_heavy") /\ Emitted("green"))

\* red above 180 with green just below 100, and blue above 180
C14_Witness ==
    /\ Analyzed
    /\ last.input.image.g = 99
    /\ last.tags = <<"red_heavy", "blue">>

(***************************************************************************)
(* Where an OCR scan is placed                                             *)
(***************************************************************************)
OcrStored == last.op = "ocr" /\ last.status = "success"

\* C15: whatever categories earlier submissions created and whatever the
\* extracted text, a successful OCR scan is placed in "documents" and leaves
\* the registry as it was.
C15_OcrPlacedInDocuments ==
    OcrStored =>
        /\ last.target_dir_name = "documents"
        /\ \E f \in storage : f.dir = "documents" /\ f.name = last.filename
        /\ EXISTING_CATEGORIES = last.before

\* a scan stored when categories for "document" and "ocr_document" exist
C15_Witness ==
    /\ OcrStored
    /\ HasCategory(last.before, "new_category_document")
    /\ HasCategory(last.before, "new_category_ocr_document")
    /\ InList("code_snippet", last.tags)

(***************************************************************************)
(* Temporary files                                                         *)
(***************************************************************************)
FileSubmission == last.op \in {"media", "ocr"}

\* the files left directly in the base directory: temp_<filename> and
\* decompressed_<name>
TemporaryFiles == {f \in storage : f.dir = ""}

\* C16: whenever process_media_file or process_ocr_scan finishes, on every
\* path, no temporary file remains in the base directory and the call has
\* returned a result record rather than raised.
C16_NoTemporaryLeftNoRaise ==
    FileSubmission =>
        /\ last.status \in {"success", "error"}
        /\ TemporaryFiles = {}

\* the same, on the paths where the call returns a record
ReturnedLeavesNoTemporary ==
    (FileSubmission /\ last.status \in {"success", "error"}) => TemporaryFiles = {}

(***************************************************************************)
(* Search                                                                  *)
(***************************************************************************)
Searched == last.op = "search"

SearchedFor == str_strip(lower(last.input.query))

\* the stored files the query matches by name, category or OCR text
Matching ==
    {f \in storage : f.dir # "" /\ is_match(f, SearchedFor, last.input.readable)}

\* C17: a non-empty query that matches at least one stored file is answered
\* successfully, not by the internal-error response, with a duplicate-free
\* list, most recent first, that contains every matching file.
C17_SearchReturnsMatches ==
    (Searched /\ SearchedFor # <<>> /\ Matching # {}) =>
        /\ last.status = "ok"
        /\ \A f \in Matching :
              \E i \in DOMAIN last.results :
                  last.results[i].category = f.dir /\ last.results[i].name = f.name
        /\ \A i, j \in DOMAIN last.results :
              i < j => /\ last.results[i].server_path_info # last.results[j].server_path_info
                       /\ last.results[i].timestamp >= last.results[j].timestamp

\* what the endpoint does answer: the empty list when nothing matches
SearchWithoutMatch ==
    (Searched /\ Matching = {}) => last.status = "ok" /\ last.results = <<>>

====
